---- MODULE Spec2Model ----
(***************************************************************************)
(* Model of the Jablotron Cloud climate platform                           *)
(* (custom_components/jablotron_cloud/climate.py, const.py, jablotron.py). *)
(*                                                                         *)
(* One climate entity is observed.  Its coroutines are cut at their await  *)
(* points: everything between two awaits runs in one step of the event     *)
(* loop, and while a command awaits an executor job (get_bridge or the     *)
(* control request) the loop is free to run other commands and the         *)
(* coordinator's listener callback.                                        *)
(***************************************************************************)
EXTENDS Naturals, Sequences, FiniteSets, Bags, TLC

\* ------------------------------------------------------------------ values

\* Python None, and the marker of a key that a dict does not hold.
None == "None"
Absent == "<absent>"

\* homeassistant.components.climate.HVACMode (COOL stands for every member
\* the entity does not advertise).
OFF == "off"
HEAT == "heat"
AUTO == "auto"
COOL == "cool"

\* homeassistant.components.climate.HVACAction
ActionOFF == "off"
ActionHEATING == "heating"
ActionIDLE == "idle"

\* ------------------------------------------------------------------ bounds

\* Commands that may be in flight (awaiting an executor job) at once.
MaxTasks == 1

\* Temperatures the vendor reports and temperatures the user asks for.
ReportedTemps == {"20.0"}
ReportedTargets == {"21.0"}
RequestedTemps == {"22.5"}

\* Vendor heating-mode strings seen in snapshots ("BOGUS": not in the table).
ModeStrings == {"OFF", "STAND_BY", "MANUAL", "MANUAL_TEMP", "SCHEDULED", "ON", "BOGUS"}
HeatingStates == {"HEATING", "HEATING_OFF"}

\* Modes a caller may pass to async_set_hvac_mode.
RequestedModes == {OFF, HEAT, AUTO, COOL}

\* The observed entity's service and device, and a second device of the
\* same service (a read-only thermometer).
ServiceId == 1
DeviceId == "A"
OtherDeviceId == "B"

\* THERMO_STATE_TO_HVAC_MODE with the "MANUAL_TEMP" entry left out.
THERMO_STATE_TO_HVAC_MODE_without_MANUAL_TEMP ==
    ("OFF" :> OFF) @@ ("STAND_BY" :> OFF) @@ ("MANUAL" :> HEAT)
    @@ ("SCHEDULED" :> AUTO) @@ ("ON" :> HEAT)

\* THERMO_STATE_TO_HVAC_MODE as it would be had "ON" been left to the
\* default.
THERMO_STATE_TO_HVAC_MODE_without_ON ==
    ("OFF" :> OFF) @@ ("STAND_BY" :> OFF) @@ ("MANUAL" :> HEAT)
    @@ ("MANUAL_TEMP" :> HEAT) @@ ("SCHEDULED" :> AUTO)

\* ------------------------------------------------------------------ const.py

THERMO_STATE_TO_HVAC_MODE ==
    ("OFF" :> OFF) @@ ("STAND_BY" :> OFF) @@ ("MANUAL" :> HEAT)
    @@ ("MANUAL_TEMP" :> HEAT) @@ ("SCHEDULED" :> AUTO) @@ ("ON" :> HEAT)

HVAC_MODE_TO_THERMO_STATE ==
    (OFF :> "OFF") @@ (HEAT :> "MANUAL") @@ (AUTO :> "SCHEDULED")

\* dict.get(key, default)
DictGet(d, key, default) == IF key \in DOMAIN d THEN d[key] ELSE default

\* dict.get(key, default) on a snapshot field: the default stands in for a
\* missing key only.
FieldGet(value, default) == IF value = Absent THEN default ELSE value

\* ------------------------------------------------------------------ snapshot

\* A thermo device of a snapshot.  "temperature" and "temperature-set" are
\* read with .get(key), so a missing key reads as None; has_state tells
\* whether the "state" key is there.  The device reports no temperature
\* range unless WithRange gives it one.
ThermoDevice(id, can_control, temperature, has_state, temperature_set, mode, heating_state) ==
    [object_device_id |-> id, can_control |-> can_control, temperature |-> temperature,
     has_state |-> has_state, temperature_set |-> temperature_set, mode |-> mode,
     heating_state |-> heating_state,
     temperature_range_min |-> None, temperature_range_max |-> None]

\* The device reporting "temperature-range-min" and "temperature-range-max".
WithRange(thermo_device, range_min, range_max) ==
    [thermo_device EXCEPT !.temperature_range_min = range_min,
                          !.temperature_range_max = range_max]

Thermometer == ThermoDevice(OtherDeviceId, "false", "18.0", FALSE, None, Absent, Absent)

\* The snapshots' versions of the observed device: every mode string while
\* the device heats, every heating-state for a mode string of each HVAC
\* mode, readings that are missing, and no "state" key at all.
ControllableDevices ==
    {ThermoDevice(DeviceId, "true", t, TRUE, ts, m, "HEATING") :
        t \in ReportedTemps, ts \in ReportedTargets, m \in ModeStrings \cup {Absent}}
    \cup {ThermoDevice(DeviceId, "true", t, TRUE, ts, m, hs) :
        t \in ReportedTemps, ts \in ReportedTargets,
        m \in {"OFF", "MANUAL", "SCHEDULED"}, hs \in {"HEATING_OFF", Absent}}
    \cup {ThermoDevice(DeviceId, "true", None, TRUE, None, m, "HEATING") :
        m \in {"STAND_BY", "SCHEDULED"}}
    \cup {ThermoDevice(DeviceId, "true", t, FALSE, None, Absent, Absent) :
        t \in ReportedTemps \cup {None}}

\* client.services: service id -> service data (only "thermo" is read).
Service(thermo) == [type |-> "JA100", thermo |-> thermo]
NoServices == [s \in {} |-> Service(<<>>)]
Snapshots ==
    {NoServices, (ServiceId :> Service(<<>>)), (ServiceId :> Service(<<Thermometer>>))}
    \cup {(ServiceId :> Service(<<Thermometer, d>>)) : d \in ControllableDevices}

\* ------------------------------------------------------------------ climate.py

\* The host's bounds of the target temperature, kept by an entity that was
\* given none.
DEFAULT_MIN_TEMP == "DEFAULT_MIN_TEMP"
DEFAULT_MAX_TEMP == "DEFAULT_MAX_TEMP"

\* JablotronClimate.__init__: the cached attributes of a new entity.
JablotronClimate(service_id, thermo_device_id, current_temperature, target_temperature, heating_mode, min_temp, max_temp) ==
    LET mode == DictGet(THERMO_STATE_TO_HVAC_MODE, heating_mode, OFF)
    IN  [service_id |-> service_id,
         thermo_device_id |-> thermo_device_id,
         current_temperature |-> current_temperature,
         target_temperature |-> target_temperature,
         hvac_mode |-> mode,
         hvac_action |-> IF mode = OFF THEN ActionOFF ELSE ActionIDLE,
         min_temp |-> IF min_temp # None THEN min_temp ELSE DEFAULT_MIN_TEMP,
         max_temp |-> IF max_temp # None THEN max_temp ELSE DEFAULT_MAX_TEMP]

\* thermo_device.get("state", {}) followed by state.get(key[, default]).
StateGet(thermo_device, key, default) ==
    IF thermo_device.has_state THEN FieldGet(thermo_device[key], default) ELSE default

\* SetupThermoDevices reading a missing "can-control" as true: only a device
\* that says it cannot be controlled is skipped.
RECURSIVE SetupThermoDevices_default_controllable(_, _)
SetupThermoDevices_default_controllable(service_id, thermo_devices) ==
    IF thermo_devices = <<>> THEN <<>>
    ELSE LET thermo_device == Head(thermo_devices)
             rest == SetupThermoDevices_default_controllable(service_id, Tail(thermo_devices))
         IN  IF FieldGet(thermo_device.can_control, "true") # "true"
             THEN rest
             ELSE <<JablotronClimate(
                        service_id,
                        thermo_device.object_device_id,
                        thermo_device.temperature,
                        StateGet(thermo_device, "temperature_set", None),
                        StateGet(thermo_device, "mode", "OFF"),
                        thermo_device.temperature_range_min,
                        thermo_device.temperature_range_max)>> \o rest

\* async_setup_entry: the entities built from one service's thermo devices,
\* in list order.
RECURSIVE SetupThermoDevices(_, _)
SetupThermoDevices(service_id, thermo_devices) ==
    IF thermo_devices = <<>> THEN <<>>
    ELSE LET thermo_device == Head(thermo_devices)
             rest == SetupThermoDevices(service_id, Tail(thermo_devices))
         IN  IF FieldGet(thermo_device.can_control, "false") # "true"
             THEN rest
             ELSE <<JablotronClimate(
                        service_id,
                        thermo_device.object_device_id,
                        thermo_device.temperature,
                        StateGet(thermo_device, "temperature_set", None),
                        StateGet(thermo_device, "mode", "OFF"),
                        thermo_device.temperature_range_min,
                        thermo_device.temperature_range_max)>> \o rest

\* async_setup_entry over client.services (service ids in increasing order).
RECURSIVE SetupServices(_, _)
SetupServices(svcs, ids) ==
    IF ids = {} THEN <<>>
    ELSE LET service_id == CHOOSE i \in ids : \A j \in ids : i <= j
         IN  SetupThermoDevices(service_id, svcs[service_id].thermo)
             \o SetupServices(svcs, ids \ {service_id})

async_setup_entry(svcs) == SetupServices(svcs, DOMAIN svcs)

\* next(filter(lambda device: device["object-device-id"] == id, thermo_devices), None):
\* the index of the first match, 0 for None.
FindThermoDevice(thermo_devices, thermo_device_id) ==
    LET hits == {i \in 1..Len(thermo_devices) :
                    thermo_devices[i].object_device_id = thermo_device_id}
    IN  IF hits = {} THEN 0 ELSE CHOOSE i \in hits : \A j \in hits : i <= j

\* The hvac_action written by _handle_coordinator_update.
HvacActionOf(hvac_mode, heating_state) ==
    IF hvac_mode = OFF THEN ActionOFF
    ELSE IF heating_state = "HEATING" THEN ActionHEATING
    ELSE ActionIDLE

\* _handle_coordinator_update taking the temperature range along with the
\* readings: the bounds follow the range the snapshot reports.
handle_coordinator_update_range(self, svcs) ==
    IF self.service_id \notin DOMAIN svcs
    THEN [self |-> self, wrote |-> FALSE]
    ELSE LET thermo_devices == svcs[self.service_id].thermo
             i == FindThermoDevice(thermo_devices, self.thermo_device_id)
         IN  IF thermo_devices = <<>> \/ i = 0
             THEN [self |-> self, wrote |-> FALSE]
             ELSE LET thermo_device == thermo_devices[i]
                      heating_mode == StateGet(thermo_device, "mode", "OFF")
                      hvac_mode == DictGet(THERMO_STATE_TO_HVAC_MODE, heating_mode, OFF)
                      heating_state == StateGet(thermo_device, "heating_state", "HEATING_OFF")
                  IN  [self |-> [self EXCEPT
                                   !.current_temperature = thermo_device.temperature,
                                   !.target_temperature =
                                       StateGet(thermo_device, "temperature_set", None),
                                   !.hvac_mode = hvac_mode,
                                   !.hvac_action = HvacActionOf(hvac_mode, heating_state),
                                   !.min_temp =
                                       IF thermo_device.temperature_range_min # None
                                       THEN thermo_device.temperature_range_min ELSE @,
                                   !.max_temp =
                                       IF thermo_device.temperature_range_max # None
                                       THEN thermo_device.temperature_range_max ELSE @],
                       wrote |-> TRUE]

\* _handle_coordinator_update reconciling instead of overwriting: a target
\* temperature the snapshot does not report leaves the cached one in place.
handle_coordinator_update_merge(self, svcs) ==
    IF self.service_id \notin DOMAIN svcs
    THEN [self |-> self, wrote |-> FALSE]
    ELSE LET thermo_devices == svcs[self.service_id].thermo
             i == FindThermoDevice(thermo_devices, self.thermo_device_id)
         IN  IF thermo_devices = <<>> \/ i = 0
             THEN [self |-> self, wrote |-> FALSE]
             ELSE LET thermo_device == thermo_devices[i]
                      heating_mode == StateGet(thermo_device, "mode", "OFF")
                      hvac_mode == DictGet(THERMO_STATE_TO_HVAC_MODE, heating_mode, OFF)
                      heating_state == StateGet(thermo_device, "heating_state", "HEATING_OFF")
                      temperature_set == StateGet(thermo_device, "temperature_set", None)
                  IN  [self |-> [self EXCEPT
                                   !.current_temperature = thermo_device.temperature,
                                   !.target_temperature =
                                       IF temperature_set = None THEN @ ELSE temperature_set,
                                   !.hvac_mode = hvac_mode,
                                   !.hvac_action = HvacActionOf(hvac_mode, heating_state)],
                       wrote |-> TRUE]

\* _handle_coordinator_update without its early returns: a device the
\* snapshot lacks is shown as off with no readings.
handle_coordinator_update_reset(self, svcs) ==
    LET thermo_devices ==
            IF self.service_id \in DOMAIN svcs THEN svcs[self.service_id].thermo ELSE <<>>
        i == FindThermoDevice(thermo_devices, self.thermo_device_id)
    IN  IF i = 0
        THEN [self |-> [self EXCEPT !.current_temperature = None,
                                    !.target_temperature = None,
                                    !.hvac_mode = OFF,
                                    !.hvac_action = ActionOFF],
              wrote |-> TRUE]
        ELSE LET thermo_device == thermo_devices[i]
                 heating_mode == StateGet(thermo_device, "mode", "OFF")
                 hvac_mode == DictGet(THERMO_STATE_TO_HVAC_MODE, heating_mode, OFF)
                 heating_state == StateGet(thermo_device, "heating_state", "HEATING_OFF")
             IN  [self |-> [self EXCEPT
                              !.current_temperature = thermo_device.temperature,
                              !.target_temperature =
                                  StateGet(thermo_device, "temperature_set", None),
                              !.hvac_mode = hvac_mode,
                              !.hvac_action = HvacActionOf(hvac_mode, heating_state)],
                  wrote |-> TRUE]

\* JablotronClimate._handle_coordinator_update: the entity after the callback
\* and whether async_write_ha_state was called.
handle_coordinator_update(self, svcs) ==
    IF self.service_id \notin DOMAIN svcs
    THEN [self |-> self, wrote |-> FALSE]
    ELSE LET thermo_devices == svcs[self.service_id].thermo
             i == FindThermoDevice(thermo_devices, self.thermo_device_id)
         IN  IF thermo_devices = <<>> \/ i = 0
             THEN [self |-> self, wrote |-> FALSE]
             ELSE LET thermo_device == thermo_devices[i]
                      heating_mode == StateGet(thermo_device, "mode", "OFF")
                      hvac_mode == DictGet(THERMO_STATE_TO_HVAC_MODE, heating_mode, OFF)
                      heating_state == StateGet(thermo_device, "heating_state", "HEATING_OFF")
                  IN  [self |-> [self EXCEPT
                                   !.current_temperature = thermo_device.temperature,
                                   !.target_temperature =
                                       StateGet(thermo_device, "temperature_set", None),
                                   !.hvac_mode = hvac_mode,
                                   !.hvac_action = HvacActionOf(hvac_mode, heating_state)],
                       wrote |-> TRUE]

\* heating_mode_for without the wake-from-off override: the table string
\* whatever the cached mode is.
heating_mode_for_no_override(current_hvac_mode, hvac_mode) ==
    DictGet(HVAC_MODE_TO_THERMO_STATE, hvac_mode, None)

\* heating_mode_for with the override taken whenever the requested mode is
\* not OFF, the cached mode not being looked at.
heating_mode_for_always_wake(current_hvac_mode, hvac_mode) ==
    LET heating_mode == DictGet(HVAC_MODE_TO_THERMO_STATE, hvac_mode, None)
    IN  IF heating_mode = None THEN None
        ELSE IF hvac_mode # OFF THEN "ON"
        ELSE heating_mode

\* async_set_hvac_mode, before its first await: the vendor string for the
\* requested mode (None: unsupported), with the wake-from-off override.
heating_mode_for(current_hvac_mode, hvac_mode) ==
    LET heating_mode == DictGet(HVAC_MODE_TO_THERMO_STATE, hvac_mode, None)
    IN  IF heating_mode = None THEN None
        ELSE IF current_hvac_mode = OFF /\ hvac_mode # OFF THEN "ON"
        ELSE heating_mode

\* set_hvac_mode_done writing the HVAC action along with the mode: off with
\* OFF, idle when heating is switched on from off.
set_hvac_mode_done_with_action(self, hvac_mode, success) ==
    IF success
    THEN [self |-> [self EXCEPT
                      !.hvac_mode = hvac_mode,
                      !.hvac_action = IF hvac_mode = OFF THEN ActionOFF
                                      ELSE IF @ = ActionOFF THEN ActionIDLE ELSE @],
          wrote |-> TRUE]
    ELSE [self |-> self, wrote |-> FALSE]

\* async_set_hvac_mode after the control call returned `success`.
set_hvac_mode_done(self, hvac_mode, success) ==
    IF success
    THEN [self |-> [self EXCEPT !.hvac_mode = hvac_mode], wrote |-> TRUE]
    ELSE [self |-> self, wrote |-> FALSE]

\* set_temperature_done caching the new target before looking at `success`.
set_temperature_done_unchecked(self, temperature, success) ==
    [self |-> [self EXCEPT !.target_temperature = temperature], wrote |-> success]

\* async_set_temperature after the control call returned `success`.
set_temperature_done(self, temperature, success) ==
    IF success
    THEN [self |-> [self EXCEPT !.target_temperature = temperature], wrote |-> TRUE]
    ELSE [self |-> self, wrote |-> FALSE]

\* except_clause with the generic clause first: it catches the
\* authorization error too.
except_clause_generic_first(ex) == "HomeAssistantError"

\* except_clause whose generic clause lets the vendor's control-action error
\* through as it is.
except_clause_leaks(ex) ==
    IF ex = "UnauthorizedException" THEN "ConfigEntryAuthFailed"
    ELSE IF ex = "ControlActionException" THEN ex
    ELSE "HomeAssistantError"

\* The except clauses of async_set_hvac_mode and async_set_temperature: the
\* condition raised to the caller for an exception of the try body.
except_clause(ex) ==
    IF ex = "UnauthorizedException" THEN "ConfigEntryAuthFailed"
    ELSE "HomeAssistantError"

\* ------------------------------------------------------------------ jablotron.py

\* Response bodies of controlThermoDevice.json: the "control-errors" list and
\* the object-device-ids of the "states" list, each with a flag telling
\* whether the key is there at all.
JsonList(has, items) == [has |-> has, items |-> items]
ControlErrors ==
    {JsonList(FALSE, <<>>), JsonList(TRUE, <<>>), JsonList(TRUE, <<"e1">>),
     JsonList(TRUE, <<"e1", "e2">>)}
StatesLists ==
    {JsonList(FALSE, <<>>), JsonList(TRUE, <<>>), JsonList(TRUE, <<OtherDeviceId>>),
     JsonList(TRUE, <<DeviceId>>), JsonList(TRUE, <<OtherDeviceId, DeviceId>>)}
Responses == [control_errors : ControlErrors, states : StatesLists]

\* response_data.get(key, [])
ListGet(list) == IF list.has THEN list.items ELSE <<>>

\* set_thermo_device_temperature looking for the device's state first: a
\* response that holds it is a success whatever errors it lists.
set_thermo_device_temperature_states_first(response, object_device_id) ==
    LET errors == ListGet(response.control_errors)
        states == ListGet(response.states)
    IN  IF \E i \in 1..Len(states) : states[i] = object_device_id
        THEN [raised |-> None, error |-> None, value |-> TRUE]
        ELSE IF errors # <<>>
        THEN [raised |-> "ControlActionException", error |-> errors[1], value |-> FALSE]
        ELSE [raised |-> None, error |-> None, value |-> FALSE]

\* JablotronBridge.set_thermo_device_temperature, after _send_request
\* returned `response`: what the call returns or raises.
set_thermo_device_temperature(response, object_device_id) ==
    LET errors == ListGet(response.control_errors)
        states == ListGet(response.states)
    IN  IF errors # <<>>
        THEN [raised |-> "ControlActionException", error |-> errors[1], value |-> FALSE]
        ELSE [raised |-> None, error |-> None,
              value |-> \E i \in 1..Len(states) : states[i] = object_device_id]

\* ------------------------------------------------------------------ state

VARIABLES
    services,   \* JablotronClient.services, the last polled snapshot
    entity,     \* the cached attributes of the climate entity
    tasks,      \* the commands in flight, each waiting for an executor job
    last,       \* the most recent finished handler: what it was and how it ended
    call        \* a call followed on its own, outside the entity's life: the
                \* platform setup or one bridge request (NoCall otherwise)

vars == <<services, entity, tasks, last, call>>

\* The frame of a command that awaits an executor job: "get_bridge" (the
\* session open) or "control" (the control request, `request` being the value
\* it carries).  `tasks` is the bag of these frames.
Task(pc, op, hvac_mode, temperature, heating_mode, request) ==
    [pc |-> pc, op |-> op, hvac_mode |-> hvac_mode, temperature |-> temperature,
     heating_mode |-> heating_mode, request |-> request]

\* A finished handler: its name, what the executor job it awaited last gave
\* it ("True", "False" or the exception; None when it awaited none), the
\* condition it raised to its caller (None when it returned), and whether it
\* called async_write_ha_state.
Last(op, result, raised, wrote) ==
    [op |-> op, result |-> result, raised |-> raised, wrote |-> wrote]

\* Outcomes of the executor jobs, as the vendor SDK produces them.
BridgeOutcomes == {"ok", "UnauthorizedException", "Exception"}
ControlOutcomes ==
    {"True", "False", "UnauthorizedException", "ControlActionException", "Exception"}
SendOutcomes == {"ok", "UnauthorizedException", "Exception"}

\* The host runs a new service call while fewer than MaxTasks are in flight.
CanCall == BagCardinality(tasks) < MaxTasks

Started(task) == tasks (+) SetToBag({task})
Ended(task) == tasks (-) SetToBag({task})

\* No call is followed on its own.
NoCall == [op |-> None]

\* The state after platform setup over one of `snapshots`, for each entity
\* it made.
InitFrom(snapshots) ==
    /\ services \in snapshots
    /\ \E i \in 1..Len(async_setup_entry(services)) :
           entity = async_setup_entry(services)[i]
    /\ tasks = EmptyBag
    /\ last = Last("async_setup_entry", None, None, FALSE)
    /\ call = NoCall

Init == InitFrom(Snapshots)

\* ------------------------------------------------------------------ actions

\* set_hvac_mode_call on a session kept from an earlier command: nothing is
\* opened and the control request goes out at once.
set_hvac_mode_call_reusing_session(hvac_mode) ==
    LET heating_mode == heating_mode_for(entity.hvac_mode, hvac_mode)
    IN  IF heating_mode = None
        THEN /\ last' = Last("async_set_hvac_mode", None, None, FALSE)
             /\ UNCHANGED <<services, entity, tasks, call>>
        ELSE /\ tasks' = Started(Task("control", "async_set_hvac_mode", hvac_mode,
                                      None, heating_mode, heating_mode))
             /\ UNCHANGED <<services, entity, last, call>>

\* async_set_hvac_mode(hvac_mode) up to its first await.
set_hvac_mode_call(hvac_mode) ==
    LET heating_mode == heating_mode_for(entity.hvac_mode, hvac_mode)
    IN  IF heating_mode = None
        THEN /\ last' = Last("async_set_hvac_mode", None, None, FALSE)
             /\ UNCHANGED <<services, entity, tasks, call>>
        ELSE /\ tasks' = Started(Task("get_bridge", "async_set_hvac_mode", hvac_mode,
                                      None, heating_mode, None))
             /\ UNCHANGED <<services, entity, last, call>>

async_set_hvac_mode ==
    /\ CanCall
    /\ \E hvac_mode \in RequestedModes : set_hvac_mode_call(hvac_mode)

\* async_turn_on asking for "MANUAL" itself instead of calling
\* async_set_hvac_mode.
async_turn_on_manual ==
    /\ CanCall
    /\ tasks' = Started(Task("get_bridge", "async_set_hvac_mode", HEAT, None, "MANUAL", None))
    /\ UNCHANGED <<services, entity, last, call>>

async_turn_on ==
    /\ CanCall
    /\ set_hvac_mode_call(HEAT)

async_turn_off ==
    /\ CanCall
    /\ set_hvac_mode_call(OFF)

\* async_set_temperature without its check of the value: a call without a
\* temperature goes on to open a session like any other.
async_set_temperature_unguarded ==
    /\ CanCall
    /\ \E temperature \in RequestedTemps \cup {None} :
        /\ tasks' = Started(Task("get_bridge", "async_set_temperature", None,
                                 temperature, None, None))
        /\ UNCHANGED <<services, entity, last, call>>

\* async_set_temperature(temperature=...) up to its first await.
async_set_temperature ==
    /\ CanCall
    /\ \E temperature \in RequestedTemps \cup {None} :
        IF temperature = None
        THEN /\ last' = Last("async_set_temperature", None, None, FALSE)
             /\ UNCHANGED <<services, entity, tasks, call>>
        ELSE /\ tasks' = Started(Task("get_bridge", "async_set_temperature", None,
                                      temperature, None, None))
             /\ UNCHANGED <<services, entity, last, call>>

\* The command `task` ends by raising what its except clause makes of ex.
Raise(task, ex) ==
    /\ tasks' = Ended(task)
    /\ last' = Last(task.op, ex, except_clause(ex), FALSE)
    /\ UNCHANGED <<services, entity, call>>

\* request_of deciding on the wake-from-off override after the session open,
\* from the mode cached by then.
request_of_decided_late(task) ==
    IF task.op = "async_set_hvac_mode"
    THEN heating_mode_for(entity.hvac_mode, task.hvac_mode)
    ELSE task.temperature

\* The value a command puts in its control request: heating_mode= or
\* temperature=.
request_of(task) ==
    IF task.op = "async_set_hvac_mode" THEN task.heating_mode ELSE task.temperature

\* client.get_bridge() finishes on its executor thread and the command
\* resumes: it issues the control request, or the login raised.
get_bridge_returns ==
    \E task \in BagToSet(tasks) :
        /\ task.pc = "get_bridge"
        /\ \E outcome \in BridgeOutcomes :
            IF outcome = "ok"
            THEN /\ tasks' = Ended(task) (+) SetToBag(
                        {[task EXCEPT !.pc = "control", !.request = request_of(task)]})
                 /\ UNCHANGED <<services, entity, last, call>>
            ELSE Raise(task, outcome)

\* The command `task` ends after its control call returned `success`: `done`
\* is the entity it leaves and whether it wrote the state.
Finish(task, success, done) ==
    /\ entity' = done.self
    /\ tasks' = Ended(task)
    /\ last' = Last(task.op, IF success THEN "True" ELSE "False", None, done.wrote)
    /\ UNCHANGED <<services, call>>

\* bridge.control_thermo_device(...) finishes and async_set_hvac_mode resumes.
control_thermo_device_returns ==
    \E task \in BagToSet(tasks) :
        /\ task.pc = "control"
        /\ task.op = "async_set_hvac_mode"
        /\ \E outcome \in ControlOutcomes :
            IF outcome \in {"True", "False"}
            THEN Finish(task, outcome = "True",
                        set_hvac_mode_done(entity, task.hvac_mode, outcome = "True"))
            ELSE Raise(task, outcome)

\* bridge.set_thermo_device_temperature(...) finishes and
\* async_set_temperature resumes.
set_thermo_device_temperature_returns ==
    \E task \in BagToSet(tasks) :
        /\ task.pc = "control"
        /\ task.op = "async_set_temperature"
        /\ \E sent \in SendOutcomes :
            IF sent # "ok"
            THEN Raise(task, sent)
            ELSE \E response \in Responses :
                LET result == set_thermo_device_temperature(response, entity.thermo_device_id)
                IN  IF result.raised # None
                    THEN Raise(task, result.raised)
                    ELSE Finish(task, result.value,
                                set_temperature_done(entity, task.temperature, result.value))

\* The coordinator finished a poll: client.services holds the new snapshot,
\* one of `snapshots`, and the entity's listener callback runs.
coordinator_update_from(snapshots) ==
    \E snapshot \in snapshots :
        LET done == handle_coordinator_update(entity, snapshot)
        IN  /\ services' = snapshot
            /\ entity' = done.self
            /\ last' = Last("_handle_coordinator_update", None, None, done.wrote)
            /\ UNCHANGED <<tasks, call>>

coordinator_update == coordinator_update_from(Snapshots)

Next ==
    \/ async_set_hvac_mode
    \/ async_set_temperature
    \/ async_turn_on
    \/ async_turn_off
    \/ get_bridge_returns
    \/ control_thermo_device_returns
    \/ set_thermo_device_temperature_returns
    \/ coordinator_update

Spec == Init /\ [][Next]_vars

\* ------------------------------------------------------------------ steps

\* The frames this step puts in flight and the frames it takes out: a call
\* adds a frame awaiting get_bridge, the resumption after the session open
\* replaces it by a frame awaiting the control request, and the end of a
\* command removes its frame.
Added == BagToSet(tasks' (-) tasks)
Removed == BagToSet(tasks (-) tasks')

\* This step is the call of a setHvacMode whose frame is `task`.
IsCall(task) ==
    task \in Added /\ task.pc = "get_bridge" /\ task.op = "async_set_hvac_mode"

\* This step resumes the setHvacMode frame `old` after its session open and
\* issues the control request: `new` is the frame awaiting it.
IsRequest(old, new) ==
    /\ old \in Removed /\ old.pc = "get_bridge" /\ old.op = "async_set_hvac_mode"
    /\ new \in Added /\ new.pc = "control"

\* This step ends the command whose frame is `task`.
IsEnd(task) == task \in Removed /\ Added = {}

\* ------------------------------------------------------------------ temperature range

\* Snapshots whose device reports a temperature range: none, two different
\* ones, and one with a minimum only; and a snapshot without the device.
RangeSnapshots ==
    {NoServices}
    \cup {(ServiceId :> Service(<<Thermometer,
              WithRange(ThermoDevice(DeviceId, "true", "20.0", TRUE, "21.0", m, "HEATING"),
                        range[1], range[2])>>)) :
            m \in {"OFF", "MANUAL"},
            range \in {<<None, None>>, <<"5.0", "30.0">>, <<"10.0", "25.0">>, <<"5.0", None>>}}

InitRange == InitFrom(RangeSnapshots)

coordinator_update_range == coordinator_update_from(RangeSnapshots)

NextRange ==
    \/ async_set_hvac_mode
    \/ async_set_temperature
    \/ async_turn_on
    \/ async_turn_off
    \/ get_bridge_returns
    \/ control_thermo_device_returns
    \/ set_thermo_device_temperature_returns
    \/ coordinator_update_range

SpecRange == InitRange /\ [][NextRange]_vars

\* ------------------------------------------------------------------ platform setup

\* The snapshots the platform is set up from: up to two services, each with
\* up to two thermo devices of different ids, every device saying that it can
\* be controlled, that it cannot, or nothing.
OtherServiceId == 2
SetupServiceIds == {ServiceId, OtherServiceId}
SetupDeviceIds == {DeviceId, OtherDeviceId}
SetupDevices ==
    {ThermoDevice(id, can_control, "20.0", TRUE, "21.0", "MANUAL", "HEATING") :
        id \in SetupDeviceIds, can_control \in {"true", "false", Absent}}
SetupThermoLists ==
    {<<>>} \cup {<<d>> : d \in SetupDevices}
    \cup {pair \in SetupDevices \X SetupDevices :
              pair[1].object_device_id # pair[2].object_device_id}
SetupSnapshots ==
    UNION {[ids -> {Service(thermo) : thermo \in SetupThermoLists}] :
              ids \in SUBSET SetupServiceIds}

\* No entity has been built yet.
NoEntity ==
    [service_id |-> None, thermo_device_id |-> None, current_temperature |-> None,
     target_temperature |-> None, hvac_mode |-> None, hvac_action |-> None,
     min_temp |-> None, max_temp |-> None]

\* async_setup_entry followed on its own: called, or done with `entities`
\* handed to async_add_entities.
SetupCall(pc, entities) == [op |-> "async_setup_entry", pc |-> pc, entities |-> entities]

InitSetup ==
    /\ services \in SetupSnapshots
    /\ entity = NoEntity
    /\ tasks = EmptyBag
    /\ last = Last(None, None, None, FALSE)
    /\ call = SetupCall("called", <<>>)

\* async_setup_entry runs to its end (it awaits nothing).
setup_entry ==
    /\ call.pc = "called"
    /\ call' = SetupCall("done", async_setup_entry(services))
    /\ UNCHANGED <<services, entity, tasks, last>>

NextSetup == setup_entry

SpecSetup == InitSetup /\ [][NextSetup]_vars

\* ------------------------------------------------------------------ bridge request

\* The responses one bridge request can get: every states list of up to two
\* entries, with every control-errors list.
BridgeStatesLists ==
    {JsonList(FALSE, <<>>), JsonList(TRUE, <<>>)}
    \cup {JsonList(TRUE, <<id>>) : id \in SetupDeviceIds}
    \cup {JsonList(TRUE, ids) : ids \in SetupDeviceIds \X SetupDeviceIds}
BridgeResponses == [control_errors : ControlErrors, states : BridgeStatesLists]
RequestedDeviceIds == SetupDeviceIds \cup {"C"}

\* JablotronBridge.set_thermo_device_temperature followed on its own: called
\* for a device, then holding the response of _send_request, then done with
\* what it returns or raises.
BridgeCall(pc, object_device_id, response, result) ==
    [op |-> "set_thermo_device_temperature", pc |-> pc,
     object_device_id |-> object_device_id, response |-> response, result |-> result]

InitBridge ==
    /\ services = NoServices
    /\ entity = NoEntity
    /\ tasks = EmptyBag
    /\ last = Last(None, None, None, FALSE)
    /\ \E id \in RequestedDeviceIds : call = BridgeCall("called", id, None, None)

\* _send_request returns the response body.
send_request_returns ==
    /\ call.pc = "called"
    /\ \E response \in BridgeResponses :
        call' = BridgeCall("responded", call.object_device_id, response, None)
    /\ UNCHANGED <<services, entity, tasks, last>>

\* The rest of set_thermo_device_temperature, over the response.
set_thermo_device_temperature_ends ==
    /\ call.pc = "responded"
    /\ call' = BridgeCall("done", call.object_device_id, call.response,
                          set_thermo_device_temperature(call.response, call.object_device_id))
    /\ UNCHANGED <<services, entity, tasks, last>>

NextBridge ==
    \/ send_request_returns
    \/ set_thermo_device_temperature_ends

SpecBridge == InitBridge /\ [][NextBridge]_vars

\* The index of the entity's device in the thermo list of a snapshot, 0 when
\* the snapshot lacks the service or the device.
DeviceIndex(svcs) ==
    IF entity.service_id \in DOMAIN svcs
    THEN FindThermoDevice(svcs[entity.service_id].thermo, entity.thermo_device_id)
    ELSE 0

\* The entity's device in a snapshot that holds it.
Device(svcs) == svcs[entity.service_id].thermo[DeviceIndex(svcs)]

\* ------------------------------------------------------------------ claims

\* C1: in every reachable state the HVAC action is OFF whenever the HVAC mode
\* is OFF, whatever the device's heating-state.
C1_ActionOffWhenModeOff ==
    entity.hvac_mode = OFF => entity.hvac_action = ActionOFF

\* C2: in every reachable state with an HVAC mode other than OFF (the
\* snapshot holding the device), the HVAC action is HEATING if the device's
\* heating-state is "HEATING" and IDLE otherwise.
C2_ActionFollowsHeatingState ==
    (DeviceIndex(services) # 0 /\ entity.hvac_mode # OFF) =>
        entity.hvac_action =
            IF StateGet(Device(services), "heating_state", "HEATING_OFF") = "HEATING"
            THEN ActionHEATING ELSE ActionIDLE

\* C3: a setHvacMode(HEAT or AUTO) called while the cached mode is OFF
\* decides on the string "ON", its control request carries "ON", and when the
\* control call returns true the cached mode becomes the requested mode.
C3_WakeFromOff ==
    [][/\ \A task \in Added :
            (IsCall(task) /\ entity.hvac_mode = OFF /\ task.hvac_mode # OFF)
                => task.heating_mode = "ON"
       /\ \A old \in Removed : \A new \in Added :
            (IsRequest(old, new) /\ old.heating_mode = "ON")
                => new.request = "ON" /\ new.hvac_mode = old.hvac_mode
       /\ \A task \in Removed :
            (IsEnd(task) /\ task.op = "async_set_hvac_mode" /\ task.request = "ON"
                /\ last'.result = "True")
                => entity'.hvac_mode = task.hvac_mode /\ task.hvac_mode \in {HEAT, AUTO}]_vars

\* C3's case: the control request of a setHvacMode(HEAT) called while OFF is
\* in flight, carrying "ON".
C3_Witness ==
    \E task \in BagToSet(tasks) :
        /\ task.pc = "control" /\ task.op = "async_set_hvac_mode"
        /\ task.hvac_mode = HEAT /\ task.request = "ON"

\* C4: a setHvacMode called while the cached mode is HEAT or AUTO, or asking
\* for OFF, decides on the table string (never "ON"), its control request
\* carries that string, and the command leaves the cached mode as it was or,
\* when the control call returns true, equal to the requested mode.
C4_OverrideOnlyFromOff ==
    [][/\ \A task \in Added :
            (IsCall(task) /\ (entity.hvac_mode # OFF \/ task.hvac_mode = OFF))
                => /\ task.heating_mode = HVAC_MODE_TO_THERMO_STATE[task.hvac_mode]
                   /\ task.heating_mode # "ON"
       /\ \A old \in Removed : \A new \in Added :
            (IsRequest(old, new) /\ old.heating_mode # "ON")
                => new.request = old.heating_mode /\ new.hvac_mode = old.hvac_mode
       /\ \A task \in Removed :
            (IsEnd(task) /\ task.op = "async_set_hvac_mode" /\ task.request # "ON")
                => entity'.hvac_mode =
                       IF last'.result = "True" THEN task.hvac_mode
                       ELSE entity.hvac_mode]_vars

\* C4's case: the control request of a setHvacMode(HEAT) called while not OFF
\* is in flight, carrying "MANUAL", the cached mode being HEAT.
C4_Witness ==
    /\ entity.hvac_mode = HEAT
    /\ \E task \in BagToSet(tasks) :
        /\ task.pc = "control" /\ task.op = "async_set_hvac_mode"
        /\ task.hvac_mode = HEAT /\ task.request = "MANUAL"

C6_PollOverwrites ==
    (last.op = "_handle_coordinator_update" /\ DeviceIndex(services) # 0) =>
        LET thermo_device == Device(services)
            mode == IF thermo_device.has_state /\ thermo_device.mode # Absent
                    THEN thermo_device.mode ELSE "OFF"
        IN  /\ entity.current_temperature = thermo_device.temperature
            /\ entity.target_temperature =
                   IF thermo_device.has_state THEN thermo_device.temperature_set ELSE None
            /\ entity.hvac_mode =
                   IF mode \in DOMAIN THERMO_STATE_TO_HVAC_MODE
                   THEN THERMO_STATE_TO_HVAC_MODE[mode] ELSE OFF
            /\ last.wrote

\* C6's case: a notification has projected a snapshot that reports no target
\* temperature and the mode "SCHEDULED".
C6_Witness ==
    /\ last.op = "_handle_coordinator_update" /\ last.wrote
    /\ DeviceIndex(services) # 0
    /\ Device(services).mode = "SCHEDULED"
    /\ entity.target_temperature = None /\ entity.hvac_mode = AUTO

\* C7: a command whose control call returns false ends without raising and
\* without writing the state, the target temperature and the HVAC mode being
\* what they were.
C7_SoftFailure ==
    [][\A task \in Removed :
        (IsEnd(task) /\ last'.result = "False") =>
            /\ last'.raised = None /\ ~last'.wrote
            /\ entity'.target_temperature = entity.target_temperature
            /\ entity'.hvac_mode = entity.hvac_mode]_vars

\* C7's case: a setTemperature ended on a false result and the target
\* temperature is not the requested one.
C7_Witness ==
    /\ last.op = "async_set_temperature" /\ last.result = "False"
    /\ last.raised = None /\ ~last.wrote
    /\ entity.target_temperature \notin RequestedTemps

\* C8: a command whose session open or control call raises an authorization
\* error ends by raising ConfigEntryAuthFailed, the HVAC mode and the target
\* temperature being what they were.
C8_AuthFailure ==
    [][\A task \in Removed :
        (IsEnd(task) /\ last'.result = "UnauthorizedException") =>
            /\ last'.raised = "ConfigEntryAuthFailed"
            /\ entity'.target_temperature = entity.target_temperature
            /\ entity'.hvac_mode = entity.hvac_mode]_vars

\* C8's case: a setHvacMode ended on an authorization error.
C8_Witness ==
    /\ last.op = "async_set_hvac_mode" /\ last.result = "UnauthorizedException"
    /\ last.raised = "ConfigEntryAuthFailed"

\* C9: a command whose session open or control call raises anything but an
\* authorization error ends by raising HomeAssistantError, never the
\* exception itself, the HVAC mode and the target temperature being what
\* they were.
C9_ControlFailed ==
    [][\A task \in Removed :
        (IsEnd(task) /\ last'.result \in {"ControlActionException", "Exception"}) =>
            /\ last'.raised = "HomeAssistantError"
            /\ entity'.target_temperature = entity.target_temperature
            /\ entity'.hvac_mode = entity.hvac_mode]_vars

\* C9's case: a setTemperature ended on the vendor's control-action error.
C9_Witness ==
    /\ last.op = "async_set_temperature" /\ last.result = "ControlActionException"
    /\ last.raised = "HomeAssistantError"

\* C10: a coordinator notification whose snapshot lacks the entity's service
\* or device raises nothing, writes no state and leaves the cached fields as
\* they were.
C10_StaleOnMissing ==
    [][(last'.op = "_handle_coordinator_update" /\ DeviceIndex(services') = 0) =>
        /\ last'.raised = None /\ ~last'.wrote
        /\ entity' = entity]_vars

\* C10's case: the last notification came with a snapshot without the
\* entity's service and the entity still shows what an earlier poll gave it.
C10_Witness ==
    /\ last.op = "_handle_coordinator_update" /\ ~last.wrote
    /\ entity.service_id \notin DOMAIN services
    /\ entity.hvac_mode = HEAT /\ entity.hvac_action = ActionHEATING

\* C11: the HVAC mode of a new entity and of an entity a refresh just
\* projected is OFF when the device reports no mode, "OFF", "STAND_BY" or a
\* string outside the table, HEAT for "MANUAL", "MANUAL_TEMP" and "ON", and
\* AUTO for "SCHEDULED".
C11_MappingTotal ==
    (/\ last.op \in {"async_setup_entry", "_handle_coordinator_update"}
     /\ DeviceIndex(services) # 0) =>
        LET mode == StateGet(Device(services), "mode", Absent)
        IN  entity.hvac_mode =
                CASE mode \in {"MANUAL", "MANUAL_TEMP", "ON"} -> HEAT
                  [] mode = "SCHEDULED" -> AUTO
                  [] OTHER -> OFF

\* C11's case: a refresh projected a device whose mode string is not in the
\* table, and the entity shows OFF.
C11_Witness ==
    /\ last.op = "_handle_coordinator_update" /\ last.wrote
    /\ DeviceIndex(services) # 0
    /\ Device(services).has_state
    /\ Device(services).mode \notin DOMAIN THERMO_STATE_TO_HVAC_MODE \cup {Absent}
    /\ entity.hvac_mode = OFF

\* C12: when platform setup is done, every device of every service has one
\* entity if its "can-control" flag is true and none if the flag is false or
\* missing; a device the snapshot does not hold has none.
C12_EntityIffCanControl ==
    call.pc = "done" =>
        \A service_id \in SetupServiceIds, id \in SetupDeviceIds :
            LET made == {i \in 1..Len(call.entities) :
                            /\ call.entities[i].service_id = service_id
                            /\ call.entities[i].thermo_device_id = id}
                controllable ==
                    /\ service_id \in DOMAIN services
                    /\ \E k \in 1..Len(services[service_id].thermo) :
                        /\ services[service_id].thermo[k].object_device_id = id
                        /\ services[service_id].thermo[k].can_control = "true"
            IN  Cardinality(made) = IF controllable THEN 1 ELSE 0

\* C12's case: setup ran over a service that holds a controllable device and
\* one without the flag, and made the first an entity and the second none.
C12_Witness ==
    /\ call.pc = "done"
    /\ \E service_id \in DOMAIN services :
        /\ Len(services[service_id].thermo) = 2
        /\ services[service_id].thermo[1].can_control = Absent
        /\ services[service_id].thermo[2].can_control = "true"
        /\ \E i \in 1..Len(call.entities) :
            /\ call.entities[i].service_id = service_id
            /\ call.entities[i].thermo_device_id =
                   services[service_id].thermo[2].object_device_id
        /\ \A i \in 1..Len(call.entities) :
            call.entities[i].service_id = service_id =>
                call.entities[i].thermo_device_id #
                    services[service_id].thermo[1].object_device_id

\* C13: set_thermo_device_temperature raises ControlActionException with the
\* first entry of "control-errors" when that list is there and not empty,
\* whatever "states" holds; otherwise it raises nothing and returns whether
\* "states" is there and holds an entry of the requested device.
C13_SetTemperatureResult ==
    call.pc = "done" =>
        LET control_errors == call.response.control_errors
            states == call.response.states
        IN  IF control_errors.has /\ Len(control_errors.items) > 0
            THEN /\ call.result.raised = "ControlActionException"
                 /\ call.result.error = control_errors.items[1]
            ELSE /\ call.result.raised = None
                 /\ call.result.value =
                        (/\ states.has
                         /\ \E i \in 1..Len(states.items) :
                                states.items[i] = call.object_device_id)

\* C13's case: the response lists two errors and the state of the requested
\* device, and the call raised the first error.
C13_Witness ==
    /\ call.pc = "done"
    /\ Len(call.response.control_errors.items) = 2
    /\ call.response.states.items = <<call.object_device_id, call.object_device_id>>
    /\ call.result.raised = "ControlActionException"
    /\ call.result.error = call.response.control_errors.items[1]

\* C14: a step is a call of async_turn_on exactly when it is a call of
\* async_set_hvac_mode(HEAT), and a call of async_turn_off exactly when it is
\* a call of async_set_hvac_mode(OFF), so the two leave the same state and
\* the same command in flight; turning on asks for "ON" from OFF and for
\* "MANUAL" otherwise, turning off asks for "OFF", and a turn-on the vendor
\* accepts leaves the entity in HEAT.
C14_TurnOnOffAliases ==
    [][/\ async_turn_on <=> (CanCall /\ set_hvac_mode_call(HEAT))
       /\ async_turn_off <=> (CanCall /\ set_hvac_mode_call(OFF))
       /\ async_turn_on =>
            Added = {Task("get_bridge", "async_set_hvac_mode", HEAT, None,
                          IF entity.hvac_mode = OFF THEN "ON" ELSE "MANUAL", None)}
       /\ async_turn_off =>
            Added = {Task("get_bridge", "async_set_hvac_mode", OFF, None, "OFF", None)}
       /\ \A task \in Removed :
            (IsEnd(task) /\ task.hvac_mode = HEAT /\ last'.result = "True") =>
                entity'.hvac_mode = HEAT]_vars

\* C14's case: the entity is in AUTO and a turn-on is in flight, asking for
\* "MANUAL".
C14_Witness ==
    /\ entity.hvac_mode = AUTO
    /\ \E task \in BagToSet(tasks) :
        /\ task.pc = "get_bridge" /\ task.op = "async_set_hvac_mode"
        /\ task.hvac_mode = HEAT /\ task.heating_mode = "MANUAL"

\* C15: no command that sets a temperature is ever in flight without a
\* temperature, and the step in which async_set_temperature returns for want
\* of one raises nothing, writes no state, starts and ends no command and
\* leaves the entity and the snapshot as they were.
C15_NoValueNoOp ==
    [][/\ \A task \in Added :
            task.op = "async_set_temperature" => task.temperature # None
       /\ (/\ last' # last
           /\ last'.op = "async_set_temperature"
           /\ last'.result = None) =>
            /\ last'.raised = None /\ ~last'.wrote
            /\ tasks' = tasks
            /\ entity' = entity
            /\ services' = services]_vars

\* C15's case: async_set_temperature was called without a temperature while
\* the entity showed a target temperature, and returned at once.
C15_Witness ==
    /\ last = Last("async_set_temperature", None, None, FALSE)
    /\ entity.target_temperature # None
    /\ tasks = EmptyBag

\* C16: no step changes the entity's minimum or maximum temperature: they
\* stay what the constructor made of the first snapshot, whatever range a
\* later snapshot reports and whatever a command does.
C16_BoundsFixed ==
    [][/\ entity'.min_temp = entity.min_temp
       /\ entity'.max_temp = entity.max_temp]_vars

\* C16's case: a refresh projected a snapshot whose device reports another
\* range than the entity's bounds, which came from the range of the first
\* snapshot.
C16_Witness ==
    /\ last.op = "_handle_coordinator_update" /\ last.wrote
    /\ DeviceIndex(services) # 0
    /\ Device(services).temperature_range_min = "10.0"
    /\ Device(services).temperature_range_max = "25.0"
    /\ entity.min_temp = "5.0" /\ entity.max_temp = "30.0"

\* C17: the HVAC action changes only in a step that is a coordinator
\* notification writing the state, never in a step that starts, resumes or
\* ends a command, however the command ends; a step that ends
\* async_set_hvac_mode leaves the current and the target temperature as they
\* were, and one that ends async_set_temperature leaves the HVAC mode and the
\* current temperature as they were.
C17_CommandsLeaveAction ==
    [][/\ entity'.hvac_action # entity.hvac_action =>
            /\ last'.op = "_handle_coordinator_update" /\ last'.wrote
            /\ tasks' = tasks
       /\ \A task \in Removed :
            /\ entity'.hvac_action = entity.hvac_action
            /\ task.op = "async_set_hvac_mode" =>
                /\ entity'.current_temperature = entity.current_temperature
                /\ entity'.target_temperature = entity.target_temperature
            /\ task.op = "async_set_temperature" =>
                /\ entity'.current_temperature = entity.current_temperature
                /\ entity'.hvac_mode = entity.hvac_mode]_vars

\* C17's case: async_set_hvac_mode(OFF) succeeded while the entity showed
\* HEATING, and the entity still shows it.
C17_Witness ==
    /\ last.op = "async_set_hvac_mode" /\ last.result = "True" /\ last.wrote
    /\ entity.hvac_mode = OFF
    /\ entity.hvac_action = ActionHEATING

\* C18: a command enters flight only as a call that awaits its own session
\* open and has issued no request; a control request is issued only by a
\* command whose session open just returned, which then awaits that request;
\* a command that awaits its control request only ends (it opens no second
\* session and issues no second request); and a command that leaves the
\* session open without issuing a request ends there with the login's
\* exception raised.
C18_FreshSessionFirst ==
    [][/\ \A task \in Added :
            \/ /\ task.pc = "get_bridge" /\ task.request = None
               /\ Removed = {}
            \/ /\ task.pc = "control" /\ task.request # None
               /\ Removed = {[task EXCEPT !.pc = "get_bridge", !.request = None]}
       /\ \A task \in Removed :
            /\ task.pc = "control" => Added = {}
            /\ (task.pc = "get_bridge" /\ Added = {}) =>
                /\ last'.op = task.op
                /\ last'.result \in {"UnauthorizedException", "Exception"}
                /\ last'.raised # None]_vars

\* C18's case: a setTemperature's session open has returned and its control
\* request, carrying the temperature, is awaited.
C18_Witness ==
    \E task \in BagToSet(tasks) :
        /\ task.pc = "control" /\ task.op = "async_set_temperature"
        /\ task.request = task.temperature /\ task.temperature # None

\* C19: the string a setHvacMode decides to send maps back, through
\* THERMO_STATE_TO_HVAC_MODE, to the mode asked for, except when AUTO is
\* asked for while the cached mode is OFF: then the string is "ON" and maps
\* back to HEAT.  A setHvacMode the vendor accepts leaves the entity in the
\* mode asked for, and a notification whose snapshot reports "ON" for the
\* device leaves it in HEAT.
C19_RoundTrip ==
    [][/\ \A task \in Added :
            IsCall(task) =>
                IF entity.hvac_mode = OFF /\ task.hvac_mode = AUTO
                THEN /\ task.heating_mode = "ON"
                     /\ DictGet(THERMO_STATE_TO_HVAC_MODE, task.heating_mode, OFF) = HEAT
                ELSE DictGet(THERMO_STATE_TO_HVAC_MODE, task.heating_mode, OFF)
                         = task.hvac_mode
       /\ \A task \in Removed :
            (/\ IsEnd(task) /\ task.op = "async_set_hvac_mode"
             /\ last'.result = "True") =>
                entity'.hvac_mode = task.hvac_mode
       /\ (/\ tasks' = tasks
           /\ last'.op = "_handle_coordinator_update"
           /\ DeviceIndex(services') # 0
           /\ StateGet(Device(services'), "mode", Absent) = "ON") =>
                entity'.hvac_mode = HEAT]_vars

\* C19's case: AUTO was asked for while the entity showed OFF, and the
\* command in flight decided to send "ON".
C19_Witness ==
    /\ entity.hvac_mode = OFF
    /\ \E task \in BagToSet(tasks) :
        /\ task.pc = "get_bridge" /\ task.op = "async_set_hvac_mode"
        /\ task.hvac_mode = AUTO /\ task.heating_mode = "ON"

====
